---- MODULE Spec2Model ----
(***************************************************************************)
(* Runtime injection of environment variables into a dockerized frontend.  *)
(*                                                                         *)
(*   build time : vite's transformIndexHtml replaces the comment           *)
(*                <!-- ENV --> of index.html by a script reference.        *)
(*   start time : start.sh writes /var/www/app/config/front.env.js from    *)
(*                the container's environment, then runs nginx.            *)
(*   run time   : constants.ts reads import.meta.env, then window._env_.   *)
(*                                                                         *)
(* Strings are TLA+ strings; a character is a string of length one.        *)
(***************************************************************************)
EXTENDS Integers, Sequences, FiniteSets, TLC

VARIABLES
    html,        \* the index.html handed to transformIndexHtml
    dist,        \* the index.html of the built artifact
    pcBuild,     \* "source" before the transform ran, "built" after
    image,       \* the CMD of the image's Dockerfile
    buildEnv,    \* import.meta.env of the bundle, fixed at build time
    environ,     \* the environment of the running container: <<name, value>>*
    dirExists,   \* /var/www/app/config/ exists
    fileExists,  \* /var/www/app/config/front.env.js exists
    file,        \* its content ("" while it does not exist)
    pc,          \* position of the container's main process
    todo,        \* the words left in the for loops of start.sh
    writeFailed, \* a command of the current run of start.sh failed
    genRuns,     \* runs of the generator since the container started
    server,      \* nginx is running
    pcPage,      \* the browser: "none", "script" (front.env.js ran), "module"
    windowEnv,   \* window._env_ in the browser
    consts,      \* the exported constants of constants.ts
    starts,      \* container starts so far
    freshFs,     \* the running container started on the file system of the image
    prev         \* the previous start, when its generator ran without a failure

vars == <<html, dist, pcBuild, image, buildEnv, environ, dirExists, fileExists,
          file, pc, todo, writeFailed, genRuns, server, pcPage, windowEnv,
          consts, starts, freshFs, prev>>

buildVars == <<html, dist, pcBuild>>
runVars == <<image, buildEnv, environ, dirExists, fileExists, file, pc, todo,
             writeFailed, genRuns, server, pcPage, windowEnv, consts, starts,
             freshFs, prev>>

----------------------------------------------------------------------------
(* Strings *)

Ch(s, i) == IF 1 <= i /\ i <= Len(s) THEN SubSeq(s, i, i) ELSE ""

StartsWith(s, p) == Len(p) <= Len(s) /\ SubSeq(s, 1, Len(p)) = p

\* The first index at which pat occurs in s, 0 when it does not occur.
IndexOf(s, pat) ==
    LET hits == {i \in 1..(Len(s) - Len(pat) + 1) :
                    SubSeq(s, i, i + Len(pat) - 1) = pat}
    IN  IF hits = {} THEN 0 ELSE CHOOSE i \in hits : \A j \in hits : i <= j

\* The number of places at which pat occurs in s.
Count(s, pat) ==
    Cardinality({i \in 1..(Len(s) - Len(pat) + 1) :
                    SubSeq(s, i, i + Len(pat) - 1) = pat})

\* String.prototype.replace(pat, rep) for a string pattern: the first
\* occurrence only, the input itself when there is none.  (rep holds no "$",
\* so none of the replacement patterns of JavaScript applies.)
Replace(s, pat, rep) ==
    LET i == IndexOf(s, pat)
    IN  IF i = 0 THEN s
        ELSE SubSeq(s, 1, i - 1) \o rep \o SubSeq(s, i + Len(pat), Len(s))

RECURSIVE Concat(_)
Concat(ss) == IF ss = <<>> THEN "" ELSE Head(ss) \o Concat(Tail(ss))

----------------------------------------------------------------------------
(* Build time: vite.config.ts *)

Placeholder == "<!-- ENV -->"
ScriptTag == "<script src=\"./config/front.env.js\"></script>"

\* A transform that inserts the script reference and leaves the comment.
transformIndexHtml_KeepsMarker(h) ==
    LET i == IndexOf(h, Placeholder)
    IN  IF i = 0 THEN h
        ELSE SubSeq(h, 1, i - 1) \o ScriptTag \o SubSeq(h, i, Len(h))

\* A transform that adds the script reference when there is no comment.
transformIndexHtml_AlwaysInjects(h) ==
    IF IndexOf(h, Placeholder) = 0 THEN h \o ScriptTag
    ELSE Replace(h, Placeholder, ScriptTag)

transformIndexHtml(h) == Replace(h, Placeholder, ScriptTag)

\* The index.html of the project: the comment sits in its head.
IndexHtml == "<head><!-- ENV --></head><body><div id=\"root\"></div></body>"

\* Pieces of which the documents given to the transform are made.
Segments ==
    { Placeholder, ScriptTag, "<p>", "<!-- ENV", " -->", "<!--",
      "<script src=\"./config/front.env.js\">" }

MaxSegs == 3

HtmlInputs ==
    { Concat(ss) : ss \in UNION { [1..n -> Segments] : n \in 0..MaxSegs } }

----------------------------------------------------------------------------
(* Start time: start.sh *)

ENV_VARS == <<"STAGE", "API_URL">>

Header == "window._env_ = {\n"
Footer == "};\n"

\* The characters at which the shell splits an unquoted expansion.
IFS == {" ", "\n"}

RECURSIVE SplitWs(_, _, _)
SplitWs(s, i, cur) ==
    LET done == IF cur = "" THEN <<>> ELSE <<cur>>
    IN  IF i > Len(s) THEN done
        ELSE IF Ch(s, i) \in IFS THEN done \o SplitWs(s, i + 1, "")
        ELSE SplitWs(s, i + 1, cur \o Ch(s, i))

\* Field splitting of an unquoted expansion.
Fields(s) == SplitWs(s, 1, "")

RECURSIVE SplitLines(_, _, _)
SplitLines(s, i, cur) ==
    IF i > Len(s) THEN (IF cur = "" THEN <<>> ELSE <<cur>>)
    ELSE IF Ch(s, i) = "\n" THEN <<cur>> \o SplitLines(s, i + 1, "")
    ELSE SplitLines(s, i + 1, cur \o Ch(s, i))

\* The lines of a text.
Lines(s) == SplitLines(s, 1, "")

RECURSIVE Join(_, _)
Join(ws, sep) ==
    IF ws = <<>> THEN ""
    ELSE IF Len(ws) = 1 THEN ws[1]
    ELSE ws[1] \o sep \o Join(Tail(ws), sep)

\* env: one NAME=VALUE per variable, a newline after each.
EnvOutput(e) == Concat([i \in 1..Len(e) |-> e[i][1] \o "=" \o e[i][2] \o "\n"])

\* grep -E "^$prefix": the lines that start with the prefix (the prefixes of
\* ENV_VARS hold no character that is special in a regular expression).
Grep(ls, prefix) == SelectSeq(ls, LAMBDA l : StartsWith(l, prefix))

\* awk -F= '{print $1}': the line up to its first "=".
AwkFirst(l) ==
    LET i == IndexOf(l, "=") IN IF i = 0 THEN l ELSE SubSeq(l, 1, i - 1)

\* for var in $(env | grep -E "^$prefix" | awk -F= '{print $1}'): the words of
\* the pipeline's output.
VarsFor(e, prefix) ==
    LET ls == Grep(Lines(EnvOutput(e)), prefix)
    IN  Fields(Join([i \in 1..Len(ls) |-> AwkFirst(ls[i])], "\n"))

\* The two nested loops: every prefix in turn, its words in order.  The
\* environment does not change while the script runs.
RECURSIVE LoopWords(_, _)
LoopWords(e, prefixes) ==
    IF prefixes = <<>> THEN <<>>
    ELSE VarsFor(e, Head(prefixes)) \o LoopWords(e, Tail(prefixes))

\* $var in the shell: the value of the variable, empty when it is not set.
GetEnv(e, var) ==
    LET hits == {i \in 1..Len(e) : e[i][1] = var}
    IN  IF hits = {} THEN "" ELSE e[CHOOSE i \in hits : TRUE][2]

\* A shell that kept the value as it is (echo "$VAR").
EchoValue_Quoted(e, var) == GetEnv(e, var)

\* value=$(eval echo "\$$var"): eval runs  echo $VAR  with the expansion
\* unquoted, so the value is split into fields and echo joins them with single
\* spaces; the command substitution drops the trailing newline.
EchoValue(e, var) == Join(Fields(GetEnv(e, var)), " ")

\* echo "    $var: \"$value\","
EntryLine(var, value) == "    " \o var \o ": \"" \o value \o "\",\n"

\* Sample environments of a container.
QasEnv == << <<"STAGE", "QAS">>, <<"API_URL", "http://example.qas.com/api">> >>
ProdEnv == << <<"STAGE", "PROD">>, <<"API_URL", "http://example.com/api">> >>

Environments ==
    { QasEnv, ProdEnv,
      << <<"HOME", "/root">> >>,
      << <<"HOME", "/root">>, <<"STAGE", "QAS">> >>,
      << <<"API_URL", "http://example.com/api">>, <<"STAGE", "PROD">> >>,
      << <<"STAGE", "QAS">>, <<"STAGE_COLOR", "blue">> >>,
      << <<"MY_STAGE", "QAS">>, <<"API_URL", "/api">> >>,
      << <<"STAGE", "PRE  PROD">>, <<"API_URL", "http://example.com/api">> >>,
      << <<"STAGE", "PROD">>, <<"API_URL", "http://example.com/\"api\"">> >>,
      << <<"HOME", "/root">>, <<"STAGE_COLOR", "\"blue\"">> >>,
      << <<"HOME", "/root\nSTAGE_Z=1">> >> }

----------------------------------------------------------------------------
(* Run time: the browser loads front.env.js, then constants.ts *)

\* Values of JavaScript: a string, undefined, a TypeError thrown by the
\* expression, and a binding whose initializer never ran.
Str(v) == <<"string", v>>
Undefined == <<"undefined">>
TypeError == <<"TypeError">>
Uninitialized == <<"uninitialized">>

\* window._env_ before any script has set it.
NoWindowEnv == [defined |-> FALSE, obj |-> <<>>]

IdChars ==
    { "A", "B", "C", "D", "E", "F", "G", "H", "I", "J", "K", "L", "M", "N",
      "O", "P", "Q", "R", "S", "T", "U", "V", "W", "X", "Y", "Z", "_", "$",
      "a", "b", "c", "d", "e", "f", "g", "h", "i", "j", "k", "l", "m", "n",
      "o", "p", "q", "r", "s", "t", "u", "v", "w", "x", "y", "z",
      "0", "1", "2", "3", "4", "5", "6", "7", "8", "9" }

RECURSIVE SkipWs(_, _)
SkipWs(s, i) == IF Ch(s, i) \in {" ", "\n"} THEN SkipWs(s, i + 1) ELSE i

RECURSIVE ScanIdent(_, _)
ScanIdent(s, i) == IF Ch(s, i) \in IdChars THEN ScanIdent(s, i + 1) ELSE i

\* The index of the double quote that closes a string literal whose text
\* starts at i; 0 when the line or the text ends first.  (No sample value holds
\* a backslash, so no escape sequence occurs.)
RECURSIVE ScanString(_, _)
ScanString(s, i) ==
    IF i > Len(s) \/ Ch(s, i) = "\n" THEN 0
    ELSE IF Ch(s, i) = "\"" THEN i
    ELSE ScanString(s, i + 1)

SyntaxError == [ok |-> FALSE, next |-> 0, obj |-> <<>>]

\* The members of an object literal from i on, up to and including its "}":
\* name: "text" pairs separated by commas, a trailing comma allowed; a later
\* member of the same name replaces an earlier one.
RECURSIVE ParseMembers(_, _, _)
ParseMembers(s, i, obj) ==
    LET j == SkipWs(s, i)
        k == ScanIdent(s, j)
        c == SkipWs(s, k)
        q == SkipWs(s, c + 1)
        e == ScanString(s, q + 1)
        a == SkipWs(s, e + 1)
        o == (SubSeq(s, j, k - 1) :> SubSeq(s, q + 1, e - 1)) @@ obj
    IN  IF Ch(s, j) = "}" THEN [ok |-> TRUE, next |-> j + 1, obj |-> obj]
        ELSE IF k = j \/ Ch(s, j) \in {"0", "1", "2", "3", "4", "5", "6", "7", "8", "9"}
             THEN SyntaxError
        ELSE IF Ch(s, c) # ":" \/ Ch(s, q) # "\"" \/ e = 0 THEN SyntaxError
        ELSE IF Ch(s, a) = "," THEN ParseMembers(s, a + 1, o)
        ELSE IF Ch(s, a) = "}" THEN [ok |-> TRUE, next |-> a + 1, obj |-> o]
        ELSE SyntaxError

\* Running a script text in the page: window._env_ afterwards.  The text is
\* one statement  window._env_ = { ... };  and anything else is a syntax error,
\* in which case nothing runs and window._env_ stays as it was.
RunScript(text, w) ==
    LET opening == SubSeq(Header, 1, Len(Header) - 1)
        m == ParseMembers(text, Len(opening) + 1, <<>>)
        semi == SkipWs(text, m.next)
        rest == SkipWs(text, IF Ch(text, semi) = ";" THEN semi + 1 ELSE semi)
    IN  IF StartsWith(text, opening) /\ m.ok /\ rest > Len(text)
        THEN [defined |-> TRUE, obj |-> m.obj]
        ELSE w

\* nginx, location / with try_files $uri $uri/ /index.html: the file when it
\* exists, index.html when it does not.
Serve(exists, content, index) == IF exists THEN content ELSE index

\* An accessor that prefers the runtime object to the build-time value.
Accessor_RuntimeFirst(k, bEnv, w) ==
    IF w.defined /\ k \in DOMAIN w.obj THEN Str(w.obj[k])
    ELSE IF bEnv[k] # Undefined THEN bEnv[k]
    ELSE IF ~w.defined THEN TypeError
    ELSE Undefined

\* import.meta.env.K ?? window._env_.K
Accessor(k, bEnv, w) ==
    IF bEnv[k] # Undefined THEN bEnv[k]
    ELSE IF ~w.defined THEN TypeError
    ELSE IF k \in DOMAIN w.obj THEN Str(w.obj[k])
    ELSE Undefined

\* The exports of a module whose constants are initialized in order: a throw
\* ends the evaluation and leaves the later ones uninitialized.
RECURSIVE ModuleExports(_, _, _)
ModuleExports(keys, bEnv, w) ==
    IF keys = <<>> THEN <<>>
    ELSE LET v == Accessor(Head(keys), bEnv, w)
         IN  IF v = TypeError
             THEN <<v>> \o [i \in 1..(Len(keys) - 1) |-> Uninitialized]
             ELSE <<v>> \o ModuleExports(Tail(keys), bEnv, w)

\* The two revisions of src/config/constants.ts.
StageKeys == <<"STAGE", "API_URL">>
TestKeys == <<"ENV_TEST">>
Keys == {"STAGE", "API_URL", "ENV_TEST"}

\* Both revisions evaluated in the page, each on its own.
EvalConstants(bEnv, w) ==
    LET a == ModuleExports(StageKeys, bEnv, w)
        b == ModuleExports(TestKeys, bEnv, w)
    IN  [k \in Keys |-> IF k = "ENV_TEST" THEN b[1]
                        ELSE IF k = "STAGE" THEN a[1] ELSE a[2]]

NoConsts == [k \in Keys |-> Uninitialized]

\* import.meta.env of a bundle: nothing embedded, or an API_URL embedded.
NoBuildEnv == [k \in Keys |-> Undefined]
BuildEnvs ==
    { NoBuildEnv,
      [k \in Keys |-> IF k = "API_URL" THEN Str("http://localhost/api")
                      ELSE Undefined] }

----------------------------------------------------------------------------
(* The state machine *)

MaxStarts == 2

\* CMD of the Dockerfile of the repository, and of the one the README gives.
Dockerfiles == {"nginx", "/start.sh"}

\* Nothing is kept of a start that did not write the whole file.
NoPrev == [valid |-> FALSE, environ |-> <<>>, file |-> ""]

\* A redirection that never empties the file.
RedirectOut_Appends(old, text) == old \o text

\* echo text > file
RedirectOut(old, text) == text

\* echo text >> file
RedirectAppend(old, text) == old \o text

RunInit ==
    /\ image \in Dockerfiles
    /\ buildEnv \in BuildEnvs
    /\ environ = <<>>
    /\ dirExists = FALSE
    /\ fileExists = FALSE
    /\ file = ""
    /\ pc = "stopped"
    /\ todo = <<>>
    /\ writeFailed = FALSE
    /\ genRuns = 0
    /\ server = FALSE
    /\ pcPage = "none"
    /\ windowEnv = NoWindowEnv
    /\ consts = NoConsts
    /\ starts = 0
    /\ freshFs = TRUE
    /\ prev = NoPrev

\* The image is built from the project's index.html.
Init ==
    /\ html = IndexHtml
    /\ dist = transformIndexHtml(IndexHtml)
    /\ pcBuild = "built"
    /\ RunInit

\* docker run / docker compose up: a new container (the file system of the
\* image, which holds no config directory) or the stopped one again.
ContainerStart(e, fresh) ==
    /\ pc = "stopped"
    /\ starts < MaxStarts
    /\ starts' = starts + 1
    /\ environ' = e
    /\ freshFs' = fresh
    /\ dirExists' = (~fresh /\ dirExists)
    /\ fileExists' = (~fresh /\ fileExists)
    /\ file' = IF fresh THEN "" ELSE file
    /\ writeFailed' = FALSE
    /\ genRuns' = 0
    /\ todo' = <<>>
    /\ pc' = IF image = "/start.sh" THEN "mkdir" ELSE "nginx"
    /\ UNCHANGED <<buildVars, image, buildEnv, server, pcPage, windowEnv,
                   consts, prev>>

\* mkdir -p /var/www/app/config/ : it may fail when the directory is not
\* there; the script has no set -e and goes on.
Mkdir(ok) ==
    /\ pc = "mkdir"
    /\ genRuns' = genRuns + 1
    /\ dirExists' = (dirExists \/ ok)
    /\ writeFailed' = (writeFailed \/ ~(dirExists \/ ok))
    /\ pc' = "trunc"
    /\ UNCHANGED <<buildVars, image, buildEnv, environ, fileExists, file, todo,
                   server, pcPage, windowEnv, consts, starts, freshFs, prev>>

\* echo 'window._env_ = {' > front.env.js : the redirection fails when the
\* directory is missing and may fail otherwise; the file is then left as it is.
Truncate(ok) ==
    LET done == dirExists /\ ok
    IN  /\ pc = "trunc"
        /\ file' = IF done THEN RedirectOut(file, Header) ELSE file
        /\ fileExists' = (fileExists \/ done)
        /\ writeFailed' = (writeFailed \/ ~done)
        /\ todo' = LoopWords(environ, ENV_VARS)
        /\ pc' = "loop"
        /\ UNCHANGED <<buildVars, image, buildEnv, environ, dirExists, genRuns,
                       server, pcPage, windowEnv, consts, starts, freshFs, prev>>

\* One turn of the inner loop.
AppendEntry(ok) ==
    LET done == dirExists /\ ok
        var == Head(todo)
        line == EntryLine(var, EchoValue(environ, var))
    IN  /\ pc = "loop"
        /\ todo # <<>>
        /\ file' = IF done THEN RedirectAppend(file, line) ELSE file
        /\ fileExists' = (fileExists \/ done)
        /\ writeFailed' = (writeFailed \/ ~done)
        /\ todo' = Tail(todo)
        /\ UNCHANGED <<buildVars, image, buildEnv, environ, dirExists, pc,
                       genRuns, server, pcPage, windowEnv, consts, starts, freshFs, prev>>

\* echo "};" >> front.env.js
CloseObject(ok) ==
    LET done == dirExists /\ ok
    IN  /\ pc = "loop"
        /\ todo = <<>>
        /\ file' = IF done THEN RedirectAppend(file, Footer) ELSE file
        /\ fileExists' = (fileExists \/ done)
        /\ writeFailed' = (writeFailed \/ ~done)
        /\ pc' = "nginx"
        /\ UNCHANGED <<buildVars, image, buildEnv, environ, dirExists, todo,
                       genRuns, server, pcPage, windowEnv, consts, starts, freshFs, prev>>

\* nginx -g "daemon off;"
ExecNginx ==
    /\ pc = "nginx"
    /\ server' = TRUE
    /\ pc' = "serving"
    /\ UNCHANGED <<buildVars, image, buildEnv, environ, dirExists, fileExists,
                   file, todo, writeFailed, genRuns, pcPage, windowEnv, consts,
                   starts, freshFs, prev>>

\* The browser gets index.html and runs the script it refers to.
LoadScript ==
    /\ server
    /\ pcPage = "none"
    /\ windowEnv' = IF IndexOf(dist, ScriptTag) # 0
                    THEN RunScript(Serve(fileExists, file, dist), NoWindowEnv)
                    ELSE NoWindowEnv
    /\ pcPage' = "script"
    /\ UNCHANGED <<buildVars, image, buildEnv, environ, dirExists, fileExists,
                   file, pc, todo, writeFailed, genRuns, server, consts, starts, freshFs,
                   prev>>

\* The bundle runs: constants.ts initializes its exports.
EvalModule ==
    /\ pcPage = "script"
    /\ consts' = EvalConstants(buildEnv, windowEnv)
    /\ pcPage' = "module"
    /\ UNCHANGED <<buildVars, image, buildEnv, environ, dirExists, fileExists,
                   file, pc, todo, writeFailed, genRuns, server, windowEnv,
                   starts, freshFs, prev>>

\* docker stop: the page is gone with the server.
ContainerStop ==
    /\ pc = "serving"
    /\ server' = FALSE
    /\ pc' = "stopped"
    /\ pcPage' = "none"
    /\ windowEnv' = NoWindowEnv
    /\ consts' = NoConsts
    /\ prev' = IF genRuns = 1 /\ ~writeFailed
                THEN [valid |-> TRUE, environ |-> environ, file |-> file]
                ELSE NoPrev
    /\ UNCHANGED <<buildVars, image, buildEnv, environ, dirExists, fileExists,
                   file, todo, writeFailed, genRuns, starts, freshFs>>

Next ==
    \/ \E e \in Environments, fresh \in BOOLEAN : ContainerStart(e, fresh)
    \/ \E ok \in BOOLEAN : Mkdir(ok)
    \/ \E ok \in BOOLEAN : Truncate(ok)
    \/ \E ok \in BOOLEAN : AppendEntry(ok)
    \/ \E ok \in BOOLEAN : CloseObject(ok)
    \/ ExecNginx
    \/ LoadScript
    \/ EvalModule
    \/ ContainerStop

Spec == Init /\ [][Next]_vars

\* The build alone: any document goes through the transform once.
InitT ==
    /\ html \in HtmlInputs
    /\ dist = ""
    /\ pcBuild = "source"
    /\ RunInit

Transform ==
    /\ pcBuild = "source"
    /\ dist' = transformIndexHtml(html)
    /\ pcBuild' = "built"
    /\ UNCHANGED <<html, runVars>>

NextT == Transform

SpecT == InitT /\ [][NextT]_vars

----------------------------------------------------------------------------
(* What the claims speak of *)

\* The generator of the running container ran once, each command succeeded,
\* and control has passed to nginx.
Generated ==
    /\ image = "/start.sh"
    /\ genRuns = 1
    /\ ~writeFailed
    /\ pc \in {"nginx", "serving"}

\* The names of the environment that start with a whitelisted name.
MatchingNames(e) ==
    { e[i][1] : i \in { j \in 1..Len(e) :
                          \E p \in 1..Len(ENV_VARS) :
                              StartsWith(e[j][1], ENV_VARS[p]) } }

\* Two environments of the same variables in the same order whose values
\* differ for whitelisted variables only.
DifferInWhitelistedValues(d, e) ==
    /\ Len(d) = Len(e)
    /\ \A i \in 1..Len(e) :
          /\ d[i][1] = e[i][1]
          /\ (e[i][1] \notin MatchingNames(e) => d[i][2] = e[i][2])

\* The file a run on environment e alone is to leave: the opening line, one
\* entry per word of the loops, the closing line.
FileOf(e) ==
    LET ws == LoopWords(e, ENV_VARS)
    IN  Header
        \o Concat([i \in 1..Len(ws) |-> EntryLine(ws[i], EchoValue(e, ws[i]))])
        \o Footer

\* An entry line up to its value.
KeyPart(l) ==
    LET i == IndexOf(l, ": \"") IN IF i = 0 THEN l ELSE SubSeq(l, 1, i + 2)

\* Two files that differ in the values of their entries at most.
SameButValues(f, g) ==
    LET lf == Lines(f)
        lg == Lines(g)
    IN  /\ Len(lf) = Len(lg)
        /\ \A i \in 1..Len(lf) : KeyPart(lf[i]) = KeyPart(lg[i])

\* C1: two consecutive starts of one image whose environments differ in the
\* values of whitelisted variables only: the second file differs from the
\* first in those values only, and STAGE and API_URL, as the application reads
\* them, are the values of the second environment.  Stated for the image that
\* runs start.sh, a bundle with nothing embedded and runs without a failed
\* write.
C1_RestartReflectsEnv ==
    ( /\ Generated
      /\ prev.valid
      /\ buildEnv = NoBuildEnv
      /\ DifferInWhitelistedValues(prev.environ, environ)
      /\ pcPage = "module" )
    => /\ SameButValues(prev.file, file)
       /\ \A k \in {"STAGE", "API_URL"} :
             k \in MatchingNames(environ) => consts[k] = Str(GetEnv(environ, k))

\* C2: whenever nginx runs, the generator has run exactly once since the
\* container started and front.env.js is there, written from its opening line
\* to its closing line.
C2_FileBeforeServer ==
    server => /\ genRuns = 1
              /\ fileExists
              /\ file = FileOf(environ)

\* C3: after a failed write of the generator nginx is never started.
C3_WriteFailureIsFatal == writeFailed => ~server

\* C4: the object the generated file defines has one entry for each variable
\* of the environment whose name starts with a whitelisted name, with that
\* variable's value, and no other entry.
C4_ExactlyWhitelisted ==
    Generated =>
        LET w == RunScript(file, NoWindowEnv)
        IN  /\ w.defined
            /\ DOMAIN w.obj = MatchingNames(environ)
            /\ \A k \in DOMAIN w.obj : w.obj[k] = GetEnv(environ, k)

\* C5: the generated file is a valid script that sets window._env_ to one
\* object, whatever the environment; the empty object when nothing matches.
C5_ValidScript ==
    Generated =>
        LET w == RunScript(file, NoWindowEnv)
        IN  /\ w.defined
            /\ (MatchingNames(environ) = {} => DOMAIN w.obj = {})

C7_MissingIsUndefined ==
    (Generated /\ pcPage = "module") =>
        \A k \in Keys :
            (buildEnv[k] = Undefined /\ k \notin MatchingNames(environ))
                => consts[k] = Undefined

\* C8: after a run without a failed write the file is the one its environment
\* alone determines, whatever file was there before, and the same environment
\* as in the previous start gives the same bytes.
C8_Overwrites ==
    Generated =>
        /\ file = FileOf(environ)
        /\ (prev.valid /\ prev.environ = environ) => file = prev.file

\* A run that found the file of another environment and replaced it.
C8_Witness ==
    /\ Generated
    /\ ~freshFs
    /\ prev.valid
    /\ prev.environ # environ
    /\ MatchingNames(prev.environ) # {}
    /\ file # prev.file

\* The document but for the first placeholder is in the output, around the
\* script reference.
RestKept(h, d) ==
    LET i == IndexOf(h, Placeholder)
    IN  /\ Len(d) = Len(h) - Len(Placeholder) + Len(ScriptTag)
        /\ SubSeq(d, 1, i - 1) = SubSeq(h, 1, i - 1)
        /\ SubSeq(d, i + Len(ScriptTag), Len(d))
             = SubSeq(h, i + Len(Placeholder), Len(h))

\* C9 as stated: a document with the placeholder exactly once comes out with
\* exactly one script reference, no placeholder and the rest unchanged.
C9_ExactlyOneScript ==
    (pcBuild = "built" /\ Count(html, Placeholder) = 1) =>
        /\ Count(dist, ScriptTag) = 1
        /\ Count(dist, Placeholder) = 0
        /\ RestKept(html, dist)

\* C9, amended: a document with the placeholder exactly once comes out with
\* one script reference more than it had, no placeholder and the rest
\* unchanged.
C9_OneMoreScript ==
    (pcBuild = "built" /\ Count(html, Placeholder) = 1) =>
        /\ Count(dist, ScriptTag) = Count(html, ScriptTag) + 1
        /\ Count(dist, Placeholder) = 0
        /\ RestKept(html, dist)

\* The transform ran on a document with one placeholder between other text.
C9_Witness ==
    /\ pcBuild = "built"
    /\ Count(html, Placeholder) = 1
    /\ IndexOf(html, Placeholder) > 1
    /\ IndexOf(html, Placeholder) + Len(Placeholder) <= Len(html)
    /\ dist # html

\* C10: a document without the placeholder comes out as it went in.
C10_NoPlaceholderNoChange ==
    (pcBuild = "built" /\ Count(html, Placeholder) = 0) => dist = html

\* The transform ran on a document that holds pieces of the placeholder but
\* not the placeholder.
C10_Witness ==
    /\ pcBuild = "built"
    /\ Count(html, Placeholder) = 0
    /\ IndexOf(html, "<!-- ENV") # 0
    /\ IndexOf(html, " -->") # 0
    /\ dist = html

====
